---------------------------- MODULE Spec2Model ----------------------------
(***************************************************************************)
(* Conway's Game of Life engine of src/src/main.rs: the Board type          *)
(* (Vec<Vec<CellState>>), its constructor, get_cell_status,                 *)
(* swap_cell_state and update_board / update_cell_state, and the host,      *)
(* main: the size menu and the game loop that drives the engine.            *)
(*                                                                         *)
(* A board is a sequence of rows, each row a sequence of cell states.  Rust *)
(* indexes from 0 and TLA+ sequences from 1, so self.0[y][x] is             *)
(* b[y + 1][x + 1]; an index at or beyond the length panics.                *)
(***************************************************************************)
EXTENDS Integers, Sequences, FiniteSets

VARIABLES
    board,            \* game_board / self.0: the live grid
    pc,               \* where the program is: "start" before Board::new,
                      \* "idle" between calls, "updating" inside update_board,
                      \* "returned" when a call has just returned to its
                      \* caller (in main's game loop: when the frame is
                      \* past its update and click branches), "panicked"
                      \* when a call has panicked
    op,               \* the call: "new" | "get" | "swap" | "update"
    args,             \* its arguments: <<x, y>>, <<width, length>> or <<>>
    ret,              \* what it returned ("panic" when it panicked)
    panic_info,       \* the panic's message: the length and the index beyond it
    before,           \* the grid as it was when the call began
    board_old,        \* update_board's snapshot (<<>> outside update_board)
    k,                \* number of cells update_board's loops have visited
    alive_neighbours, \* update_cell_state's counter after its last count
    board_width,      \* main's locals of the same names
    board_height,
    current_size_input,
    currently_selected_width,
    is_game_paused,
    current_speed_index,
    keys,             \* the keys the game loop's frame found pressed, with
                      \* the pause flag and the speed index it began with
    space_seen        \* Space was found pressed in some frame so far

\* main's variables.
host == <<board_width, board_height, current_size_input,
          currently_selected_width, is_game_paused, current_speed_index,
          keys, space_seen>>

vars == <<board, pc, op, args, ret, panic_info, before, board_old, k,
          alive_neighbours, board_width, board_height, current_size_input,
          currently_selected_width, is_game_paused, current_speed_index,
          keys, space_seen>>

\* Largest width and height passed to Board::new.
MaxWidth == 3
MaxHeight == 3
\* Largest coordinate passed to get_cell_status / swap_cell_state.
MaxCoord == 3
\* Most live cells of a grid the caller has edited by swap_cell_state.
MaxAlive == 4

\* Stands for the index a usize addition that wraps below 0 gives (at most
\* usize::MAX, at least usize::MAX - 1 here): like it, beyond every Vec's
\* length.  It is the largest integer TLC represents.
WrappedIndex == 2147483647

NoPanic == [len |-> 0, index |-> 0]

\* screen_width() and screen_height() as main reads them after the menu, in
\* pixels.
ScreenWidth == 5
ScreenHeight == 5
\* Most live cells of a grid the user has edited by clicking.
MaxClickedAlive == 2
\* current_speed_index before any key, and the index of the last entry of
\* speeds.
InitialSpeedIndex == 2
LastSpeedIndex == 4

\* No frame of the game loop has polled the keys.
NoKeys == [polled |-> FALSE, space |-> FALSE, left |-> FALSE, right |-> FALSE,
           paused_was |-> TRUE, index_was |-> 0]

\* ---------------------------------------------------------------- Board

\* A faulty variant: the rows are as many as the cells of a row.
BoardNewSquare(width, length) == [r \in 1..width |-> [c \in 1..width |-> "Dead"]]
\* A faulty variant: width rows of length cells.
BoardNewTransposed(width, length) == [r \in 1..width |-> [c \in 1..length |-> "Dead"]]
\* vec![vec![Dead; width]; length]
BoardNew(width, length) == [r \in 1..length |-> [c \in 1..width |-> "Dead"]]

\* self.0.len() and self.0[0].len()
Rows(b) == Len(b)
Cols(b) == Len(b[1])

\* self.0[y][x] does not panic: y indexes the rows, x the cells of row y.
IndexOk(b, x, y) == y < Len(b) /\ x < Len(b[y + 1])

\* A faulty variant: an index beyond the length wraps around.
AccessWrapping(b, x, y) ==
    IF Len(b) = 0 \/ Len(b[1]) = 0 THEN <<>>
    ELSE <<x % Len(b[1]), y % Len(b)>>
\* The cell the index expression self.0[y][x] names: (x, y) itself, or <<>>
\* when the indexing panics.
Access(b, x, y) == IF IndexOk(b, x, y) THEN <<x, y>> ELSE <<>>

\* "index out of bounds: the len is .. but the index is ..", of self.0[y][x]:
\* the row index is checked first.
IndexPanic(b, x, y) ==
    IF y >= Len(b) THEN [len |-> Len(b), index |-> y]
                   ELSE [len |-> Len(b[y + 1]), index |-> x]

\* self.0[y][x], read
Cell(b, x, y) == b[y + 1][x + 1]

\* self.0[y][x] = s
SetCell(b, x, y, s) == [b EXCEPT ![y + 1][x + 1] = s]

\* The cells of a board, as (x, y) pairs.
Cells(b) == {p \in (0..MaxWidth + 1) \X (0..MaxHeight + 1) : IndexOk(b, p[1], p[2])}

\* The number of Alive cells of a board.
AliveCount(b) == Cardinality({p \in Cells(b) : Cell(b, p[1], p[2]) = "Alive"})

\* Faulty variants: the cell is set Alive whatever it was; the whole row is
\* written.
SwappedAlwaysAlive(b, x, y) == SetCell(b, x, y, "Alive")
SwappedWholeRow(b, x, y) ==
    [b EXCEPT ![y + 1] = [c \in 1..Len(b[y + 1]) |->
                            IF b[y + 1][x + 1] = "Alive" THEN "Dead" ELSE "Alive"]]
\* swap_cell_state's body, once the index is known to be in range
Swapped(b, x, y) ==
    IF Cell(b, x, y) = "Alive" THEN SetCell(b, x, y, "Dead")
                               ELSE SetCell(b, x, y, "Alive")


\* ---------------------------------------------------- update_cell_state

\* usize::overflowing_add_signed(offset).0
AddSigned(a, offset) == IF a + offset >= 0 THEN a + offset ELSE WrappedIndex

\* The offset ranges update_cell_state picks; -1..2 is {-1, 0, 1}.
x_offsets(b, x) ==
    IF x > 0 /\ x < Cols(b) - 1 THEN -1..1
    ELSE IF x > 1 THEN -1..0
    ELSE 0..1

y_offsets(b, y) ==
    IF y > 0 /\ y < Rows(b) - 1 THEN -1..1
    ELSE IF y > 1 THEN -1..0
    ELSE 0..1

\* A faulty variant: the pair (0, 0), the cell itself, is not skipped.
NeighbourOffsetsWithSelf(b, x, y) ==
    x_offsets(b, x) \X y_offsets(b, y)
\* The offset pairs the counting loops reach the index expression with:
\* every pair but (0, 0).
NeighbourOffsets(b, x, y) ==
    (x_offsets(b, x) \X y_offsets(b, y)) \ {<<0, 0>>}

\* The position the index expression names for an offset pair.
Position(x, y, o) == <<AddSigned(x, o[1]), AddSigned(y, o[2])>>

\* The positions the counting loops index old_board at.
NeighbourPositions(b, x, y) ==
    {Position(x, y, o) : o \in NeighbourOffsets(b, x, y)}

\* Some old_board.0[..][..] of the counting loops is out of range: a panic.
CountPanics(b, old, x, y) ==
    \E p \in NeighbourPositions(b, x, y) : ~IndexOk(old, p[1], p[2])

\* The offset pair of the first such index: x_offset is the outer loop,
\* y_offset the inner one.
FirstBadOffset(b, old, x, y) ==
    LET bad == {o \in NeighbourOffsets(b, x, y) :
                   ~IndexOk(old, Position(x, y, o)[1], Position(x, y, o)[2])}
    IN  CHOOSE o \in bad :
            \A q \in bad : o[1] < q[1] \/ (o[1] = q[1] /\ o[2] <= q[2])

\* A faulty variant: the neighbours are read in the live grid, not in the
\* snapshot.
AliveNeighboursLive(b, old, x, y) ==
    Cardinality({p \in NeighbourPositions(b, x, y) :
                    IndexOk(b, p[1], p[2]) /\ Cell(b, p[1], p[2]) = "Alive"})
\* A faulty variant: the comparison is with CellState::Dead.
AliveNeighboursCountsDead(b, old, x, y) ==
    Cardinality({p \in NeighbourPositions(b, x, y) :
                    IndexOk(old, p[1], p[2]) /\ Cell(old, p[1], p[2]) = "Dead"})
\* alive_neighbours when the counting loops finish.
AliveNeighbours(b, old, x, y) ==
    Cardinality({p \in NeighbourPositions(b, x, y) :
                    IndexOk(old, p[1], p[2]) /\ Cell(old, p[1], p[2]) = "Alive"})

\* A faulty variant: a count of 2 kills the cell.
RuleTwoKills(n, current) ==
    IF n = 3 THEN "Alive" ELSE "Dead"
\* match alive_neighbours { 0..=1 => Dead, 3..=3 => Alive, 4..=8 => Dead, _ => {} }
RuleMatch(n, current) ==
    IF n \in 0..1 THEN "Dead"
    ELSE IF n = 3 THEN "Alive"
    ELSE IF n \in 4..8 THEN "Dead"
    ELSE current

\* The (x, y) of the k-th call of update_cell_state in update_board's loops:
\* y is the outer loop, x the inner one.
LoopX(b, i) == i % Cols(b)
LoopY(b, i) == i \div Cols(b)

\* ------------------------------------------------------------- actions

Init ==
    /\ board = <<>>
    /\ pc = "start"
    /\ op = "none"
    /\ args = <<>>
    /\ ret = "none"
    /\ panic_info = NoPanic
    /\ before = <<>>
    /\ board_old = <<>>
    /\ k = 0
    /\ alive_neighbours = 0
    /\ board_width = 0
    /\ board_height = 0
    /\ current_size_input = 0
    /\ currently_selected_width = TRUE
    /\ is_game_paused = TRUE
    /\ current_speed_index = InitialSpeedIndex
    /\ keys = NoKeys
    /\ space_seen = FALSE

\* Board::new(width, length)
New(width, length) ==
    /\ pc = "start"
    /\ op' = "new"
    /\ args' = <<width, length>>
    /\ before' = board
    /\ board' = BoardNew(width, length)
    /\ ret' = "ok"
    /\ pc' = "returned"
    /\ UNCHANGED <<panic_info, board_old, k, alive_neighbours>>

\* Board::get_cell_status(x, y)
GetCellStatus(x, y) ==
    /\ pc = "idle"
    /\ op' = "get"
    /\ args' = <<x, y>>
    /\ before' = board
    /\ IF Access(board, x, y) # <<>>
          THEN /\ ret' = Cell(board, Access(board, x, y)[1], Access(board, x, y)[2])
               /\ pc' = "returned"
               /\ UNCHANGED panic_info
          ELSE /\ ret' = "panic"
               /\ pc' = "panicked"
               /\ panic_info' = IndexPanic(board, x, y)
    /\ UNCHANGED <<board, board_old, k, alive_neighbours>>

\* Board::swap_cell_state(x, y).  The first conjunct bounds the caller's
\* edits: it makes no grid of more than MaxAlive live cells.
SwapCellState(x, y) ==
    /\ pc = "idle"
    /\ IndexOk(board, x, y) => AliveCount(Swapped(board, x, y)) <= MaxAlive
    /\ op' = "swap"
    /\ args' = <<x, y>>
    /\ before' = board
    /\ IF Access(board, x, y) # <<>>
          THEN /\ board' = Swapped(board, Access(board, x, y)[1], Access(board, x, y)[2])
               /\ ret' = "ok"
               /\ pc' = "returned"
               /\ UNCHANGED panic_info
          ELSE /\ board' = board
               /\ ret' = "panic"
               /\ pc' = "panicked"
               /\ panic_info' = IndexPanic(board, x, y)
    /\ UNCHANGED <<board_old, k, alive_neighbours>>

\* Board::update_board, up to the first update_cell_state call: the clone,
\* and the return at once when the loops have nothing to visit.
UpdateBoard ==
    /\ pc = "idle"
    /\ op' = "update"
    /\ args' = <<>>
    /\ before' = board
    /\ IF Rows(board) = 0 \/ Cols(board) = 0
          THEN /\ ret' = "ok"
               /\ pc' = "returned"
               /\ board_old' = <<>>
          ELSE /\ ret' = "running"
               /\ pc' = "updating"
               /\ board_old' = board
    /\ UNCHANGED <<board, panic_info, k, alive_neighbours>>

\* One iteration of update_board's loops: update_cell_state(board_old, x, y),
\* and update_board's return after the last one.
UpdateCellState ==
    /\ pc = "updating"
    /\ LET x == LoopX(board, k)
           y == LoopY(board, k)
           n == AliveNeighbours(board, board_old, x, y)
       IN  IF CountPanics(board, board_old, x, y)
              THEN /\ pc' = "panicked"
                   /\ ret' = "panic"
                   /\ LET p == Position(x, y, FirstBadOffset(board, board_old, x, y))
                      IN  panic_info' = IndexPanic(board_old, p[1], p[2])
                   /\ UNCHANGED <<board, board_old, k, alive_neighbours>>
              ELSE /\ alive_neighbours' = n
                   /\ board' = SetCell(board, x, y, RuleMatch(n, Cell(board, x, y)))
                   /\ k' = k + 1
                   /\ UNCHANGED panic_info
                   /\ IF k + 1 = Rows(board) * Cols(board)
                         THEN /\ pc' = "returned"
                              /\ ret' = "ok"
                              /\ board_old' = <<>>
                         ELSE /\ pc' = "updating"
                              /\ UNCHANGED <<ret, board_old>>
    /\ UNCHANGED <<op, args, before>>

\* The caller goes on after a call that returned: the call's arguments,
\* result and locals are gone.
CallerResumes ==
    /\ pc = "returned"
    /\ pc' = "idle"
    /\ op' = "none"
    /\ args' = <<>>
    /\ ret' = "none"
    /\ before' = <<>>
    /\ k' = 0
    /\ alive_neighbours' = 0
    /\ UNCHANGED <<board, panic_info, board_old>>

\* The engine under any caller: main's variables stay as they began.
Next ==
    \/ \E width \in 0..MaxWidth, length \in 0..MaxHeight :
          New(width, length) /\ UNCHANGED host
    \/ \E x \in 0..MaxCoord, y \in 0..MaxCoord :
          GetCellStatus(x, y) /\ UNCHANGED host
    \/ \E x \in 0..MaxCoord, y \in 0..MaxCoord :
          SwapCellState(x, y) /\ UNCHANGED host
    \/ UpdateBoard /\ UNCHANGED host
    \/ UpdateCellState /\ UNCHANGED host
    \/ CallerResumes /\ UNCHANGED host

Spec == Init /\ [][Next]_vars

\* ----------------------------------------------------------------- main

\* One frame of the menu's loop.  digit is the digit key found pressed (-1
\* for none), minus and swap tell whether Minus and Left or Right were.  The
\* first conjunct bounds the user's typing: no size beyond MaxWidth or
\* MaxHeight (so the multiplication and the saturating addition stay far
\* from usize::MAX).
MenuFrame(digit, minus, swap) ==
    /\ pc = "start"
    /\ LET typed == IF digit >= 0 THEN current_size_input * 10 + digit
                                  ELSE current_size_input
           erased == IF minus THEN typed \div 10 ELSE typed
           selected == IF swap THEN ~currently_selected_width
                               ELSE currently_selected_width
           input == IF swap THEN (IF selected THEN board_width ELSE board_height)
                            ELSE erased
       IN  /\ typed <= (IF currently_selected_width THEN MaxWidth ELSE MaxHeight)
           /\ current_size_input' = input
           /\ currently_selected_width' = selected
           /\ IF selected
                 THEN board_width' = input /\ UNCHANGED board_height
                 ELSE board_height' = input /\ UNCHANGED board_width
    /\ UNCHANGED <<board, pc, op, args, ret, panic_info, before, board_old, k,
                   alive_neighbours, is_game_paused, current_speed_index,
                   keys, space_seen>>

\* Enter ends the menu: main sizes the window and builds the board.  The
\* menu's two locals are not read again.
MenuConfirm ==
    /\ New(board_width, board_height)
    /\ current_size_input' = 0
    /\ currently_selected_width' = TRUE
    /\ UNCHANGED <<board_width, board_height, is_game_paused,
                   current_speed_index, keys, space_seen>>

\* The game loop begins.
LoopEnters ==
    /\ op = "new"
    /\ CallerResumes
    /\ UNCHANGED host

\* Lengths in pixels are exact fractions <<numerator, denominator>>; NaN is
\* what the f32 divisions 0. / 0. give.  (f32 rounding is left out.)
NaN == <<0, 0>>

\* board_proportions >= 1. : width / height with height = 0 is +infinity
\* when width > 0 and NaN, which compares false, when width = 0.
ProportionsAtLeastOne == board_width > 0 /\ board_width >= board_height

\* window_width, as requested after the menu.
window_width ==
    IF ProportionsAtLeastOne THEN <<4 * ScreenWidth, 5>>
    ELSE IF board_height = 0 THEN NaN
    ELSE <<ScreenHeight * board_width, board_height>>

\* cell_size = window_width / board_width.
cell_size ==
    IF board_width = 0 THEN NaN
    ELSE <<window_width[1], window_width[2] * board_width>>

\* window_height, as requested after the menu: with the 0.08 *
\* screen_height() added.
window_height ==
    IF ProportionsAtLeastOne
       THEN <<20 * ScreenWidth * board_height + 2 * ScreenHeight * board_width,
              25 * board_width>>
       ELSE <<27 * ScreenHeight, 25>>

\* (m / cell_size).floor() as usize; NaN as usize is 0.
CellCoordinate(m) ==
    IF cell_size = NaN THEN 0
    ELSE (m * cell_size[2]) \div cell_size[1]

\* The mouse position (mx, my) is inside the window main requested.  A
\* window of width NaN cannot be made: the position then is any the screen
\* has.
InWindow(mx, my) ==
    /\ IF window_width = NaN THEN mx < ScreenWidth
       ELSE mx * window_width[2] < window_width[1]
    /\ my * window_height[2] < window_height[1]

\* A faulty variant: the pause flag is not looked at.
UpdateIsDueWhilePaused(due, paused) == due
\* The condition of the frame's first branch: the update interval has
\* passed (due) and the game is not paused.
UpdateIsDue(due, paused) == due /\ ~paused

\* A frame of the game loop whose first branch is taken: update_board.
FrameUpdates(due) ==
    /\ pc = "idle"
    /\ keys = NoKeys
    /\ UpdateIsDue(due, is_game_paused)
    /\ UpdateBoard
    /\ UNCHANGED host

\* A frame whose second branch is taken: the left button was found pressed
\* with the mouse at (mx, my), a position inside the window.  The first
\* conjunct of the LET bounds the user's edits.
FrameClick(due, mx, my) ==
    /\ pc = "idle"
    /\ keys = NoKeys
    /\ ~UpdateIsDue(due, is_game_paused)
    /\ InWindow(mx, my)
    /\ LET x == CellCoordinate(mx)
           y == CellCoordinate(my)
       IN  /\ IndexOk(board, x, y) =>
                 AliveCount(Swapped(board, x, y)) <= MaxClickedAlive
           /\ SwapCellState(x, y)
    /\ UNCHANGED host

\* A frame in which neither branch is taken.
FrameNoCall(due) ==
    /\ keys = NoKeys
    /\ pc = "idle"
    /\ ~UpdateIsDue(due, is_game_paused)
    /\ pc' = "returned"
    /\ UNCHANGED <<board, op, args, ret, panic_info, before, board_old, k,
                   alive_neighbours>>
    /\ UNCHANGED host

\* update_board's iterations inside a frame.
FrameUpdateCellState ==
    /\ UpdateCellState
    /\ UNCHANGED host

\* A faulty variant: the index is not checked against the last entry.
SpeedAfterLeftUnchecked(index) == index + 1
\* Left: if current_speed_index < 4 { current_speed_index += 1 }
SpeedAfterLeft(index) == IF index < LastSpeedIndex THEN index + 1 ELSE index
\* Right: if current_speed_index > 0 { current_speed_index -= 1 }
SpeedAfterRight(index) == IF index > 0 THEN index - 1 ELSE index

\* The rest of the frame: Space, then, when not paused, Left and Right.
FrameKeys(space, left, right) ==
    /\ op # "new"
    /\ CallerResumes
    /\ LET paused == IF space THEN ~is_game_paused ELSE is_game_paused
           after_left == IF ~paused /\ left
                            THEN SpeedAfterLeft(current_speed_index)
                            ELSE current_speed_index
           after_right == IF ~paused /\ right
                             THEN SpeedAfterRight(after_left)
                             ELSE after_left
       IN  /\ is_game_paused' = paused
           /\ current_speed_index' = after_right
    /\ keys' = [polled |-> TRUE, space |-> space, left |-> left, right |-> right,
                paused_was |-> is_game_paused, index_was |-> current_speed_index]
    /\ space_seen' = (space_seen \/ space)
    /\ UNCHANGED <<board_width, board_height, current_size_input,
                   currently_selected_width>>

\* next_frame().await: the keys found pressed are gone.
NextFrame ==
    /\ pc = "idle"
    /\ keys # NoKeys
    /\ keys' = NoKeys
    /\ UNCHANGED <<board, pc, op, args, ret, panic_info, before, board_old, k,
                   alive_neighbours, board_width, board_height,
                   current_size_input, currently_selected_width,
                   is_game_paused, current_speed_index, space_seen>>

\* Farthest pixel of a mouse position: beyond every window main requests.
MaxMouse == ScreenWidth + ScreenHeight

MainNext ==
    \/ \E digit \in -1..9, minus \in BOOLEAN, swap \in BOOLEAN :
          MenuFrame(digit, minus, swap)
    \/ MenuConfirm
    \/ LoopEnters
    \/ \E due \in BOOLEAN : FrameUpdates(due)
    \/ \E due \in BOOLEAN, mx \in 0..MaxMouse, my \in 0..MaxMouse :
          FrameClick(due, mx, my)
    \/ \E due \in BOOLEAN : FrameNoCall(due)
    \/ FrameUpdateCellState
    \/ \E space \in BOOLEAN, left \in BOOLEAN, right \in BOOLEAN :
          FrameKeys(space, left, right)
    \/ NextFrame

\* main: the menu, then the game loop.
MainSpec == Init /\ [][MainNext]_vars

\* ------------------------------------------- the specification's terms

\* The grid's height and width; a grid without rows has no cells.
Height(b) == Len(b)
Width(b) == IF Len(b) = 0 THEN 0 ELSE Len(b[1])

\* (x, y) lies in [0, width) x [0, height).
InGrid(b, x, y) == x < Width(b) /\ y < Height(b)

Abs(i) == IF i < 0 THEN -i ELSE i

\* The Moore neighbours of (x, y) that lie inside the grid.
MooreNeighbours(b, x, y) ==
    {p \in ((x - 1)..(x + 1)) \X ((y - 1)..(y + 1)) :
        /\ p # <<x, y>>
        /\ p[1] >= 0 /\ p[1] < Width(b)
        /\ p[2] >= 0 /\ p[2] < Height(b)}

MooreCount(b, x, y) ==
    Cardinality({p \in MooreNeighbours(b, x, y) : b[p[2] + 1][p[1] + 1] = "Alive"})

\* The standard rule, applied once to a completed count.
StandardRule(n, previous) ==
    IF n <= 1 THEN "Dead"
    ELSE IF n = 2 THEN previous
    ELSE IF n = 3 THEN "Alive"
    ELSE "Dead"

Flipped(s) == IF s = "Alive" THEN "Dead" ELSE "Alive"

AllDead(b) == \A y \in 1..Len(b) : \A x \in 1..Len(b[y]) : b[y][x] = "Dead"

SameShape(a, b) ==
    /\ Len(a) = Len(b)
    /\ \A y \in 1..Len(a) : Len(a[y]) = Len(b[y])

\* x or y is on the grid's border.
OnBorderX(b, x) == x = 0 \/ x = Width(b) - 1
OnBorderY(b, y) == y = 0 \/ y = Height(b) - 1

\* The call is update_board on a grid with width >= 1 and height >= 1.
UpdateOfValidGrid == op = "update" /\ Height(before) >= 1 /\ Width(before) >= 1

\* The call is get_cell_status or swap_cell_state with these arguments.
CellCall(kinds, inside) ==
    /\ op \in kinds
    /\ InGrid(before, args[1], args[2]) = inside

\* --------------------------------------------------------------- claims

\* C1: for every grid with width >= 1 and height >= 1 and every cell, the
\* neighbour count update_board uses is the number of Alive cells, in the
\* grid as it was before the call, among exactly the in-grid Moore
\* neighbours: the call does not index outside the grid, the positions it
\* examines for the next cell are the in-grid Moore neighbours, and the
\* count it made for the cell just visited is their Alive count.
C1_CountIsMooreCount ==
    UpdateOfValidGrid =>
        /\ ret # "panic"
        /\ pc = "updating" =>
              NeighbourPositions(board, LoopX(board, k), LoopY(board, k))
                 = MooreNeighbours(before, LoopX(board, k), LoopY(board, k))
        /\ k > 0 =>
              alive_neighbours
                 = MooreCount(before, LoopX(board, k - 1), LoopY(board, k - 1))

\* C2: when update_board has returned, every cell holds the standard rule
\* applied once to its Alive Moore-neighbour count in the grid as it was
\* before the call: at most 1 gives Dead, 2 keeps the previous state,
\* 3 gives Alive, 4 or more gives Dead.
C2_RuleAppliedOnce ==
    (op = "update" /\ pc = "returned") =>
        /\ SameShape(board, before)
        /\ \A p \in Cells(before) :
              Cell(board, p[1], p[2])
                 = StandardRule(MooreCount(before, p[1], p[2]),
                                Cell(before, p[1], p[2]))

\* A cell of the grid before the call with this state and a count in this
\* set, and this state after the call.
RuleCase(was, counts, is) ==
    \E p \in Cells(before) :
        /\ Cell(before, p[1], p[2]) = was
        /\ MooreCount(before, p[1], p[2]) \in counts
        /\ Cell(board, p[1], p[2]) = is

\* A returned update_board in which an Alive cell with 4 or more Alive
\* neighbours died, a Dead cell with 3 revived, an Alive cell with 2 stayed
\* Alive and a Dead cell with 2 stayed Dead.
C2_Witness ==
    /\ op = "update" /\ pc = "returned" /\ ret = "ok"
    /\ RuleCase("Alive", 4..8, "Dead")
    /\ RuleCase("Dead", {3}, "Alive")
    /\ RuleCase("Alive", {2}, "Alive")
    /\ RuleCase("Dead", {2}, "Dead")

\* C3: update_board never fails on a grid with width >= 1 and height >= 1:
\* it does not panic.
C3_AdvanceNeverFails ==
    UpdateOfValidGrid => (pc # "panicked" /\ ret # "panic")

\* C4: Board::new with a width or a height of 0 signals an error and
\* yields no grid.
C4_ZeroDimensionRejected ==
    (op = "new" /\ (args[1] = 0 \/ args[2] = 0)) =>
        (ret # "ok" /\ board = before)

\* C5: get_cell_status and swap_cell_state with a coordinate outside
\* [0, width) x [0, height) panic, and the grid after the failed call is
\* the grid before it.
C5_OutOfBoundsFailsFast ==
    CellCall({"get", "swap"}, FALSE) =>
        (pc = "panicked" /\ ret = "panic" /\ board = before)

\* Such a call on a grid wider than it is high, with an x at or beyond the
\* width and a y below the height.
C5_Witness ==
    /\ CellCall({"get", "swap"}, FALSE)
    /\ Height(before) >= 1
    /\ Width(before) > Height(before)
    /\ args[1] >= Width(before)
    /\ args[2] < Height(before)

\* C6: a freshly constructed grid has every cell Dead: for the width and
\* height given to Board::new, every (x, y) with x < width and y < height
\* is a cell, and get_cell_status reads Dead there.
C6_FreshGridAllDead ==
    op = "new" =>
        \A x \in 0..args[1] - 1, y \in 0..args[2] - 1 :
            /\ Access(board, x, y) = <<x, y>>
            /\ Cell(board, x, y) = "Dead"

\* A fresh grid that has cells and is not square.
C6_Witness ==
    /\ op = "new"
    /\ args[1] >= 1
    /\ args[2] >= 1
    /\ args[1] # args[2]

\* C7: swap_cell_state with an in-grid coordinate flips the cell that
\* get_cell_status(x, y) reads and leaves every other cell, and the grid's
\* shape, unchanged.
C7_ToggleFlipsOneCell ==
    CellCall({"swap"}, TRUE) =>
        /\ pc = "returned"
        /\ SameShape(board, before)
        /\ \A p \in Cells(before) :
              Cell(board, p[1], p[2]) =
                 IF p = args THEN Flipped(Cell(before, p[1], p[2]))
                             ELSE Cell(before, p[1], p[2])

\* A toggle of a cell that had an Alive and a Dead neighbour.
C7_Witness ==
    /\ CellCall({"swap"}, TRUE)
    /\ \E p \in MooreNeighbours(before, args[1], args[2]) :
          Cell(before, p[1], p[2]) = "Alive"
    /\ \E p \in MooreNeighbours(before, args[1], args[2]) :
          Cell(before, p[1], p[2]) = "Dead"

\* C8: toggling the same in-grid cell twice in a row restores the whole
\* grid: when swap_cell_state(x, y) has returned, the grid a second
\* swap_cell_state(x, y) gives is the grid before the first.
C8_ToggleTwiceRestores ==
    CellCall({"swap"}, TRUE) =>
        /\ Access(board, args[1], args[2]) = args
        /\ Swapped(board, args[1], args[2]) = before

\* A toggle that turned the grid's last live cell off again.
C8_Witness ==
    /\ CellCall({"swap"}, TRUE)
    /\ AllDead(board)

\* C9: update_board on an all-Dead grid leaves it all-Dead: no cell is
\* Alive while the call runs, when it has returned, or when it has
\* panicked.
C9_AllDeadStaysAllDead ==
    (op = "update" /\ AllDead(before)) => AllDead(board)

\* A returned update_board of an all-Dead grid, every cell visited.
C9_Witness ==
    /\ UpdateOfValidGrid
    /\ pc = "returned"
    /\ AllDead(before)
    /\ k = Height(before) * Width(before)

\* C10: the positions update_board examines for a cell all lie in the
\* grid, and there are at most 3 of them for a corner cell, at most 5 for
\* an edge cell that is no corner, and exactly 8 for an interior cell.
C10_CandidatesInGrid ==
    (pc = "updating") =>
        LET x == LoopX(board, k)
            y == LoopY(board, k)
            candidates == NeighbourPositions(board, x, y)
        IN  /\ \A p \in candidates : InGrid(before, p[1], p[2])
            /\ (OnBorderX(board, x) /\ OnBorderY(board, y))
                  => Cardinality(candidates) <= 3
            /\ (OnBorderX(board, x) # OnBorderY(board, y))
                  => Cardinality(candidates) <= 5
            /\ (~OnBorderX(board, x) /\ ~OnBorderY(board, y))
                  => Cardinality(candidates) = 8

\* The Alive cells of a grid.
AliveCells(b) == {p \in Cells(b) : Cell(b, p[1], p[2]) = "Alive"}

\* The grid's only Alive cells form a 2x2 block (each of the four then has
\* exactly the other three as its Alive neighbours).
IsBlock(b) ==
    LET alive == AliveCells(b)
    IN  /\ Cardinality(alive) = 4
        /\ \E p \in alive :
              alive = {p, <<p[1] + 1, p[2]>>, <<p[1], p[2] + 1>>,
                       <<p[1] + 1, p[2] + 1>>}

\* C11: update_board leaves a grid whose only Alive cells form a 2x2 block
\* unchanged: the grid is the block while the call runs, when it has
\* returned, and when it has panicked, so every further call starts from
\* the same pattern.
C11_BlockIsStill ==
    (op = "update" /\ IsBlock(before)) => (board = before /\ IsBlock(board))

\* A returned update_board, every cell visited, of a block in a grid with
\* Dead cells around it.
C11_Witness ==
    /\ op = "update" /\ pc = "returned" /\ ret = "ok"
    /\ IsBlock(before)
    /\ Width(before) >= 3 /\ Height(before) >= 3
    /\ k = Height(before) * Width(before)

\* The cells update_board's loops have visited after i iterations.
Visited(b, i) == {p \in Cells(b) : p[2] * Width(b) + p[1] < i}

\* The state the rule gives the cell (x, y) of the grid b.
NextState(b, x, y) == StandardRule(MooreCount(b, x, y), Cell(b, x, y))

\* The grid after i iterations, as a function of the grid before the call
\* alone.
SweepOf(b, i) ==
    [r \in 1..Len(b) |-> [c \in 1..Len(b[r]) |->
        IF (r - 1) * Len(b[r]) + (c - 1) < i
           THEN NextState(b, c - 1, r - 1)
           ELSE b[r][c]]]

\* C12: the grids of an update_board call are a function of the grid
\* before the call: after i iterations the grid is SweepOf(before, i),
\* whatever was written so far, and any cell not yet visited, were it
\* visited next, would get the state that function gives it: the result
\* does not depend on the order of the visits.
C12_Deterministic ==
    (op = "update" /\ pc \in {"updating", "returned"}) =>
        /\ board = SweepOf(before, k)
        /\ pc = "updating" =>
              \A p \in Cells(before) :
                  (p[2] * Width(before) + p[1] >= k
                     /\ ~CountPanics(board, board_old, p[1], p[2])) =>
                      RuleMatch(AliveNeighbours(board, board_old, p[1], p[2]),
                                Cell(board, p[1], p[2]))
                         = NextState(before, p[1], p[2])

\* A call that has changed visited cells and has cells left to visit.
C12_Witness ==
    /\ op = "update" /\ pc = "updating"
    /\ board # before
    /\ k >= 2
    /\ k < Height(before) * Width(before)

\* C13: the grid keeps its shape: Board::new(width, length) gives length
\* rows of width cells, no later call changes the number of rows or the
\* length of any row, and every cell is Alive or Dead.
C13_ShapeKept ==
    /\ op = "new" =>
          /\ Len(board) = args[2]
          /\ \A r \in 1..Len(board) : Len(board[r]) = args[1]
    /\ op \in {"get", "swap", "update"} => SameShape(board, before)
    /\ \A r \in 1..Len(board) :
          /\ Len(board[r]) = Len(board[1])
          /\ \A c \in 1..Len(board[r]) : board[r][c] \in {"Alive", "Dead"}

\* A returned update_board that changed cells of a grid and left Alive
\* cells in it.
C13_Witness ==
    /\ op = "update" /\ pc = "returned"
    /\ board # before
    /\ AliveCount(board) > 0

\* C14: inside update_board the snapshot is the grid as it was when the
\* call began and is never written, and the count made for the cell just
\* visited is the number of Alive cells among the examined positions in
\* that snapshot, not in the live grid.
C14_SnapshotDiscipline ==
    (op = "update" /\ pc \in {"updating", "panicked"}) =>
        /\ board_old = before
        /\ k > 0 =>
              LET x == LoopX(before, k - 1)
                  y == LoopY(before, k - 1)
              IN  alive_neighbours =
                     Cardinality({p \in NeighbourPositions(before, x, y) :
                                     Cell(before, p[1], p[2]) = "Alive"})

\* A cell just visited one of whose examined positions was written earlier
\* in the same call with another state than the snapshot holds.
C14_Witness ==
    /\ op = "update" /\ pc = "updating" /\ k > 0
    /\ \E p \in NeighbourPositions(before, LoopX(before, k - 1), LoopY(before, k - 1)) :
          /\ p \in Visited(before, k - 1)
          /\ Cell(board, p[1], p[2]) # Cell(before, p[1], p[2])

\* The call is a click's swap_cell_state in a frame of the game loop.
ClickToggled == op = "swap" /\ pc \in {"returned", "panicked"}

\* C15: a click toggles a cell only while the game is paused: in a frame
\* in which the game is playing no swap_cell_state call changes a cell.
C15_ClickOnlyWhilePaused ==
    (op = "swap" /\ pc = "returned" /\ board # before) => is_game_paused

\* C16: update_board is called only in frames in which the game is not
\* paused and only after Space was pressed; the game is paused until the
\* first Space press, the pause flag changes in a frame exactly when Space
\* was found pressed, and while the game is paused a call that changed the
\* grid is a swap_cell_state.
C16_AdvanceOnlyWhilePlaying ==
    /\ op = "update" => (~is_game_paused /\ space_seen)
    /\ ~space_seen => is_game_paused
    /\ keys.polled => ((is_game_paused # keys.paused_was) <=> keys.space)
    /\ (is_game_paused /\ op \in {"get", "swap", "update"} /\ board # before)
          => op = "swap"

\* A returned update_board that changed the grid, in a game that is playing.
C16_Witness ==
    /\ op = "update" /\ pc = "returned"
    /\ board # before
    /\ ~is_game_paused /\ space_seen

\* C17: every swap_cell_state call of the game loop has its coordinates
\* inside the grid and does not panic, for every size the menu confirms and
\* every mouse position inside the window.
C17_ClickInsideGrid ==
    ClickToggled =>
        /\ InGrid(before, args[1], args[2])
        /\ ret # "panic"

Min(a, b) == IF a <= b THEN a ELSE b
Max(a, b) == IF a >= b THEN a ELSE b

\* C18: current_speed_index is within 0..4 and is 2 until the game has
\* been unpaused; the keys of a frame leave it alone when the game is
\* paused and, when it is playing, Left moves it one step up, to at most 4,
\* and then Right one step down, to at least 0.
C18_SpeedIndexInRange ==
    /\ current_speed_index \in 0..4
    /\ ~space_seen => current_speed_index = 2
    /\ keys.polled =>
          LET up == IF keys.left THEN Min(keys.index_was + 1, 4)
                                 ELSE keys.index_was
              down == IF keys.right THEN Max(up - 1, 0) ELSE up
          IN  current_speed_index = (IF is_game_paused THEN keys.index_was
                                                       ELSE down)

\* Left was found pressed, and Right was not, in a frame of a game that is
\* playing at the fastest speed.
C18_Witness ==
    /\ keys.polled /\ keys.left /\ ~keys.right
    /\ ~is_game_paused
    /\ keys.index_was = 4
    /\ current_speed_index = 4

=============================================================================
